---- MODULE Spec2Model ----
(***************************************************************************)
(* A model of the ERC721Mintable contract template of the infura-sdk.      *)
(*                                                                         *)
(* The state is one ERC721Mintable instance (its fields contractAddress,   *)
(* #contractDeployed and #signer), the asynchronous calls in flight on it  *)
(* (one slot per caller), the number of calls that reached the on-chain    *)
(* collaborator, and a record of the step that happened last (the call, its *)
(* arguments, what it threw and what it sent to the chain).                *)
(*                                                                         *)
(* JavaScript runs every handler to its next await without interruption,   *)
(* so one action is the code of a method from its entry (or from the await *)
(* it resumes at) to the next await, return or throw.                      *)
(*                                                                         *)
(* Two more parts follow the template: the functions of error/handler.js,  *)
(* applied to one argument each (SpecHandler), and the SDK facade, whose   *)
(* deploy and loadContract make an instance and run the template's methods *)
(* on it and whose other operations ask the metadata service or the        *)
(* provider (SpecSdk).                                                     *)
(***************************************************************************)
EXTENDS Integers, Sequences, FiniteSets, TLC

\* ------------------------------------------------------------------ bounds
\* Number of callers that may have a call in flight at the same time.
NumTasks == 2
\* Cap on the number of requests sent to the on-chain collaborator.
MaxChain == 4
\* Number of hex digits of an address (40 in ethers, scaled down).
AddrLen == 2

\* --------------------------------------------------------- JavaScript values
Undef == [ty |-> "undefined"]
\* A string is the sequence of its pieces, none of them empty: one character
\* each where the characters are inspected.
Str(s) == [ty |-> "string", s |-> s]
Num(n, d) == [ty |-> "number", n |-> n, d |-> d]     \* the number n/d, d in {1, 2}
Bool(b) == [ty |-> "boolean", b |-> b]
Null == [ty |-> "null"]
\* A plain object: f maps its property names to their values.
Obj(f) == [ty |-> "object", f |-> f]

\* JavaScript truthiness, the test behind `!x`.
Truthy(v) ==
  CASE v.ty = "undefined" -> FALSE
    [] v.ty = "null" -> FALSE
    [] v.ty = "string" -> Len(v.s) > 0
    [] v.ty = "number" -> v.n # 0
    [] v.ty = "boolean" -> v.b
    [] OTHER -> TRUE

HexChars == {"a", "1"}

\* ethers.utils.isAddress: a string of exactly AddrLen hex digits.
IsAddress(v) ==
  /\ v.ty = "string"
  /\ Len(v.s) = AddrLen
  /\ \A i \in 1..Len(v.s) : v.s[i] \in HexChars

\* A variant that accepts every number, like a typeof test.
IsInteger_anyNumber(v) == v.ty = "number"

\* Number.isInteger
IsInteger(v) == v.ty = "number" /\ v.d = 1

\* isBoolean of utils.js
IsBoolean(v) == v.ty = "boolean"

\* The test `!(!x || !ethers.utils.isAddress(x))`.
ValidAddress_truthyOnly(v) == Truthy(v)
ValidAddress(v) == Truthy(v) /\ IsAddress(v)

\* The royalty fee bound of setRoyalties.
MaxFee == 10000
\* `!(!fee || !Number.isInteger(fee) || !(fee > 0 && fee < 10000))`
FeeOk_inclusive(fee) ==
  Truthy(fee) /\ IsInteger(fee) /\ fee.n > 0 /\ fee.n <= MaxFee * fee.d
FeeOk(fee) ==
  Truthy(fee) /\ IsInteger(fee) /\ fee.n > 0 /\ fee.n < MaxFee * fee.d

ADMIN_ROLE == "0x0000000000000000000000000000000000000000000000000000000000000000"
MINTER_ROLE == "0x9f2df0fed2c77648de5860a4cc508cd0818c85b8b8a1ab4ceeef8d981c8956a6"
GasLimit == 6000000

\* ------------------------------------------------------------------- inputs
Tasks == 1..NumTasks

ValidA == Str([i \in 1..AddrLen |-> "a"])
ValidB == Str([i \in 1..AddrLen |-> "1"])
EmptyAddr == Str(<<>>)
ShortAddr == Str([i \in 1..(AddrLen - 1) |-> "a"])
LongAddr == Str([i \in 1..(AddrLen + 1) |-> "a"])
NonHexAddr == Str([i \in 1..AddrLen |-> IF i = 1 THEN "z" ELSE "a"])

ValidAddrs == {ValidA, ValidB}
MalformedAddrs == {EmptyAddr, ShortAddr, LongAddr, NonHexAddr}
\* Every address a caller may pass / the few the concurrent runs use.
AddrInputs(full) ==
  IF full THEN ValidAddrs \cup MalformedAddrs \cup {Undef}
  ELSE {ValidA}

TextInputs(full, s) ==
  IF full THEN {Undef, Str(<<>>), Str(<<s>>)} ELSE {Str(<<s>>)}

FeeInputs(full) ==
  IF full
  THEN {Num(0, 1), Num(1, 1), Num(MaxFee - 1, 1), Num(MaxFee, 1), Num(-1, 1),
        Num(2 * MaxFee - 1, 2), Num(1, 2), Str(<<"1">>), Undef}
  ELSE {Num(1, 1)}

TokenIdInputs(full) ==
  IF full
  THEN {Num(0, 1), Num(1, 1), Num(-1, 1), Num(3, 2), Str(<<"1">>), Undef}
  ELSE {Num(1, 1)}

BoolInputs(full) ==
  IF full THEN {Bool(TRUE), Bool(FALSE), Str(<<"t">>), Num(1, 1), Undef}
  ELSE {Bool(TRUE)}

\* Failures the on-chain collaborator may answer with.
Causes == {"revert", "network"}
\* Addresses the chain may give a newly deployed contract.
ChainAddrs == {ValidA, ValidB}

\* ------------------------------------------------------------ thrown values
NoError == [ty |-> "none"]
NoCause == "none"
\* new Error(`[tag] msg`) and new Error(`[tag] An error occured: ${cause}`)
Err(tag, msg, cause) == [ty |-> "Error", tag |-> tag, msg |-> msg, cause |-> cause]
\* the collaborator's own failure, not wrapped
Raw(cause) == [ty |-> "raw", tag |-> "", msg |-> "", cause |-> cause]
\* `new Error(error).stack`: a string
Stack(cause) == [ty |-> "stackString", tag |-> "", msg |-> "", cause |-> cause]

Occured == "An error occured"
TypeErrorCause == "TypeError"

\* What each operation throws when its on-chain call fails with `cause`.
OnFailure(op, cause) ==
  CASE op = "setRoyalties" -> Raw(cause)
    [] op = "royaltyInfo" -> Stack(cause)
    [] OTHER -> Err("ERC721Mintable." \o op, Occured, cause)

\* ----------------------------------------------------------------- state
VARIABLES
  roles,             \* the fields ADMIN_ROLE and MINTER_ROLE of the instance
  signer,            \* #signer: Undef or the signer given to the constructor
  contractAddress,   \* contractAddress: Undef or an address
  contractDeployed,  \* #contractDeployed: Undef or a contract handle
  pending,           \* per caller: Idle, or the call it awaits
  nChain,            \* requests sent to the on-chain collaborator so far
  nBind,             \* times the fields were written by deploy or loadContract
  nDeployOk,         \* deploy calls that returned normally
  last,              \* the step that happened last
  sdk,               \* the SDK facade call in progress, or the last one's outcome
  fnCall             \* a call of a function of error/handler.js and its result

vars == <<roles, signer, contractAddress, contractDeployed, pending, nChain, nBind,
          nDeployOk, last, sdk, fnCall>>

Idle == [stage |-> "idle"]
NoCall == [method |-> "none"]
Contract(addr) == [ty |-> "contract", address |-> addr]
TheSigner == [ty |-> "signer"]

Bound == contractAddress # Undef \/ contractDeployed # Undef

\* What no method of the template assigns after construction, and what lies
\* outside the template.
untouched == <<sdk, fnCall, roles, signer>>

\* No facade call and no handler call: the template is used directly.
NoSdkCall == [pc |-> "none", op |-> "none"]
NoFnCall == [fn |-> "none"]

\* constructor(signer)
Constructed ==
  /\ roles = [ADMIN_ROLE |-> ADMIN_ROLE, MINTER_ROLE |-> MINTER_ROLE]
  /\ signer \in {TheSigner, Undef}
  /\ contractAddress = Undef
  /\ contractDeployed = Undef
  /\ pending = [t \in Tasks |-> Idle]
  /\ nChain = 0
  /\ nBind = 0
  /\ nDeployOk = 0
  /\ last = [ev |-> "new", op |-> "constructor", args |-> <<>>, thrown |-> NoError,
             call |-> NoCall, bound |-> FALSE]

\* A new instance, used directly.
Init == Constructed /\ sdk = NoSdkCall /\ fnCall = NoFnCall

\* The call of `op` with `args` throws `err` before reaching any await.
Throw(op, args, err) ==
  /\ last' = [ev |-> "invoke", op |-> op, args |-> args, thrown |-> err,
              call |-> NoCall, bound |-> Bound]
  /\ UNCHANGED <<untouched, contractAddress, contractDeployed, pending, nChain,
                 nBind, nDeployOk>>

\* `await this.#contractDeployed.method(...)`: the request goes out and the
\* caller waits; on an unset handle the member access throws a TypeError.
Call(t, op, args, call) ==
  IF contractDeployed = Undef
  THEN Throw(op, args, OnFailure(op, TypeErrorCause))
  ELSE /\ nChain < MaxChain
       /\ nChain' = nChain + 1
       /\ pending' = [pending EXCEPT ![t] = [stage |-> "call", op |-> op]]
       /\ last' = [ev |-> "invoke", op |-> op, args |-> args, thrown |-> NoError,
                   call |-> call, bound |-> Bound]
       /\ UNCHANGED <<untouched, contractAddress, contractDeployed, nBind, nDeployOk>>

\* ------------------------------------------------------- deploy, loadContract
DeployTag == "ERC721Mintable.deploy"
LoadTag == "ERC721Mintable.loadContract"
NoOpts == [gasLimit |-> 0]
\* A variant that leaves the gas to the provider's estimate.
GasOpts_none == [gasLimit |-> 0]

GasOpts == [gasLimit |-> GasLimit]

\* A variant that tests the symbol and the URI for truthiness, like the name.
DeployError_truthy(a) ==
  IF contractAddress # Undef \/ contractDeployed # Undef
  THEN Err(DeployTag, "The contract has already been deployed!", NoCause)
  ELSE IF ~Truthy(signer)
  THEN Err(DeployTag, "Signer instance is required to interact with contract.", NoCause)
  ELSE IF ~Truthy(a.name)
  THEN Err(DeployTag, "Name cannot be empty", NoCause)
  ELSE IF ~Truthy(a.symbol)
  THEN Err(DeployTag, "symbol cannot be undefined", NoCause)
  ELSE IF ~Truthy(a.contractURI)
  THEN Err(DeployTag, "contractURI cannot be undefined", NoCause)
  ELSE NoError

\* The checks deploy makes before its try block, in order: what it throws.
DeployError(a) ==
  IF contractAddress # Undef \/ contractDeployed # Undef
  THEN Err(DeployTag, "The contract has already been deployed!", NoCause)
  ELSE IF ~Truthy(signer)
  THEN Err(DeployTag, "Signer instance is required to interact with contract.", NoCause)
  ELSE IF ~Truthy(a.name)
  THEN Err(DeployTag, "Name cannot be empty", NoCause)
  ELSE IF a.symbol = Undef
  THEN Err(DeployTag, "symbol cannot be undefined", NoCause)
  ELSE IF a.contractURI = Undef
  THEN Err(DeployTag, "contractURI cannot be undefined", NoCause)
  ELSE NoError

\* deploy({ name, symbol, contractURI }), to `await factory.deploy(...)`.
Deploy(t, a) ==
  /\ pending[t] = Idle
  /\ IF DeployError(a) # NoError
     THEN Throw("deploy", a, DeployError(a))
     ELSE /\ nChain + 2 <= MaxChain
          /\ nChain' = nChain + 1
          /\ pending' = [pending EXCEPT ![t] = [stage |-> "factoryDeploy", op |-> "deploy"]]
          /\ last' = [ev |-> "invoke", op |-> "deploy", args |-> a, thrown |-> NoError,
                      call |-> [method |-> "deploy",
                                args |-> <<a.name, a.symbol, a.contractURI>>,
                                opts |-> NoOpts],
                      bound |-> Bound]
          /\ UNCHANGED <<untouched, contractAddress, contractDeployed, nBind, nDeployOk>>

\* A variant that keeps the handle as soon as the deployment is submitted.
DeploySubmitted_earlyHandle(t, addr) ==
  /\ pending[t].stage = "factoryDeploy"
  /\ nChain' = nChain + 1
  /\ contractDeployed' = Contract(addr)
  /\ pending' = [pending EXCEPT ![t] = [stage |-> "deployed", op |-> "deploy",
                                        contract |-> Contract(addr)]]
  /\ last' = [ev |-> "resume", op |-> "deploy", args |-> <<>>, thrown |-> NoError,
              call |-> [method |-> "deployed", args |-> <<>>, opts |-> NoOpts],
              bound |-> Bound]
  /\ UNCHANGED <<untouched, contractAddress, nBind, nDeployOk>>

\* `factory.deploy` answered with the contract (at `addr`); the code goes on to
\* `await contract.deployed()`.
DeploySubmitted(t, addr) ==
  /\ pending[t].stage = "factoryDeploy"
  /\ nChain' = nChain + 1
  /\ pending' = [pending EXCEPT ![t] = [stage |-> "deployed", op |-> "deploy",
                                        contract |-> Contract(addr)]]
  /\ last' = [ev |-> "resume", op |-> "deploy", args |-> <<>>, thrown |-> NoError,
              call |-> [method |-> "deployed", args |-> <<>>, opts |-> NoOpts],
              bound |-> Bound]
  /\ UNCHANGED <<untouched, contractAddress, contractDeployed, nBind, nDeployOk>>

\* A variant that forgets to publish the address.
DeployConfirmed_handleOnly(t) ==
  /\ pending[t].stage = "deployed"
  /\ contractDeployed' = pending[t].contract
  /\ nBind' = nBind + 1
  /\ nDeployOk' = nDeployOk + 1
  /\ pending' = [pending EXCEPT ![t] = Idle]
  /\ last' = [ev |-> "return", op |-> "deploy", args |-> <<>>, thrown |-> NoError,
              call |-> NoCall, bound |-> Bound]
  /\ UNCHANGED <<untouched, contractAddress, nChain>>

\* A variant that keeps an address the instance already has.
DeployConfirmed_keepAddress(t) ==
  /\ pending[t].stage = "deployed"
  /\ contractDeployed' = pending[t].contract
  /\ contractAddress' = IF contractAddress # Undef THEN contractAddress
                        ELSE pending[t].contract.address
  /\ nBind' = nBind + 1
  /\ nDeployOk' = nDeployOk + 1
  /\ pending' = [pending EXCEPT ![t] = Idle]
  /\ last' = [ev |-> "return", op |-> "deploy", args |-> <<>>, thrown |-> NoError,
              call |-> NoCall, bound |-> Bound]
  /\ UNCHANGED <<untouched, nChain>>

\* `contract.deployed()` answered: both fields are written and deploy returns.
DeployConfirmed(t) ==
  /\ pending[t].stage = "deployed"
  /\ contractDeployed' = pending[t].contract
  /\ contractAddress' = pending[t].contract.address
  /\ nBind' = nBind + 1
  /\ nDeployOk' = nDeployOk + 1
  /\ pending' = [pending EXCEPT ![t] = Idle]
  /\ last' = [ev |-> "return", op |-> "deploy", args |-> <<>>, thrown |-> NoError,
              call |-> NoCall, bound |-> Bound]
  /\ UNCHANGED <<untouched, nChain>>

\* A variant that submits the deployment again when the submission failed.
DeployFails_resubmit(t, cause) ==
  /\ pending[t].stage \in {"factoryDeploy", "deployed"}
  /\ IF pending[t].stage = "factoryDeploy" /\ nChain + 2 <= MaxChain
     THEN /\ nChain' = nChain + 1
          /\ last' = [ev |-> "resume", op |-> "deploy", args |-> <<>>, thrown |-> NoError,
                      call |-> [method |-> "deploy", args |-> <<>>, opts |-> NoOpts],
                      bound |-> Bound]
          /\ UNCHANGED <<untouched, contractAddress, contractDeployed, pending, nBind,
                         nDeployOk>>
     ELSE /\ pending' = [pending EXCEPT ![t] = Idle]
          /\ last' = [ev |-> "throw", op |-> "deploy", args |-> <<>>,
                      thrown |-> Err(DeployTag, Occured, cause), call |-> NoCall,
                      bound |-> Bound]
          /\ UNCHANGED <<untouched, contractAddress, contractDeployed, nChain, nBind,
                         nDeployOk>>

\* `factory.deploy` or `contract.deployed()` failed: the catch block rethrows.
DeployFails(t, cause) ==
  /\ pending[t].stage \in {"factoryDeploy", "deployed"}
  /\ pending' = [pending EXCEPT ![t] = Idle]
  /\ last' = [ev |-> "throw", op |-> "deploy", args |-> <<>>,
              thrown |-> Err(DeployTag, Occured, cause), call |-> NoCall, bound |-> Bound]
  /\ UNCHANGED <<untouched, contractAddress, contractDeployed, nChain, nBind, nDeployOk>>

\* A variant that builds the handle from the instance's field, not the argument.
LoadContract_staleAddress(t, a) ==
  /\ pending[t] = Idle
  /\ IF contractAddress # Undef \/ contractDeployed # Undef
     THEN Throw("loadContract", a,
                Err(LoadTag, "The contract has already been loaded!", NoCause))
     ELSE IF ~ValidAddress(a.contractAddress)
     THEN Throw("loadContract", a,
                Err(LoadTag, "A valid contract address is required to load a contract.", NoCause))
     ELSE /\ contractDeployed' = Contract(contractAddress)
          /\ contractAddress' = a.contractAddress
          /\ nBind' = nBind + 1
          /\ last' = [ev |-> "invoke", op |-> "loadContract", args |-> a, thrown |-> NoError,
                      call |-> NoCall, bound |-> Bound]
          /\ UNCHANGED <<untouched, pending, nChain, nDeployOk>>

\* loadContract({ contractAddress }): no await, the whole method is one step.
\* `new ethers.Contract` does not throw for an address isAddress accepts.
LoadContract(t, a) ==
  /\ pending[t] = Idle
  /\ IF contractAddress # Undef \/ contractDeployed # Undef
     THEN Throw("loadContract", a,
                Err(LoadTag, "The contract has already been loaded!", NoCause))
     ELSE IF ~ValidAddress(a.contractAddress)
     THEN Throw("loadContract", a,
                Err(LoadTag, "A valid contract address is required to load a contract.", NoCause))
     ELSE /\ contractDeployed' = Contract(a.contractAddress)
          /\ contractAddress' = a.contractAddress
          /\ nBind' = nBind + 1
          /\ last' = [ev |-> "invoke", op |-> "loadContract", args |-> a, thrown |-> NoError,
                      call |-> NoCall, bound |-> Bound]
          /\ UNCHANGED <<untouched, pending, nChain, nDeployOk>>

\* ------------------------------------------------- operations on the contract
\* `!this.#contractDeployed && !this.contractAddress`
NotDeployedOrLoaded == contractDeployed = Undef /\ contractAddress = Undef

Tag(op) == "ERC721Mintable." \o op

\* The eight role operations share one shape: the guard, the address check and
\* `await this.#contractDeployed.<method>(this.<ROLE>, publicAddress)`.
RoleOp(t, op, a, first, addrMsg, method, role) ==
  /\ pending[t] = Idle
  /\ IF NotDeployedOrLoaded
     THEN Throw(op, a, Err(Tag(op), first, NoCause))
     ELSE IF ~ValidAddress(a.publicAddress)
     THEN Throw(op, a, Err(Tag(op), addrMsg, NoCause))
     ELSE Call(t, op, a, [method |-> method, args |-> <<role, a.publicAddress>>,
                          opts |-> NoOpts])

\* setRoyalties(address, fee): the address and the fee are checked before the
\* contract, and the call is returned without a try/catch.
SetRoyalties(t, a) ==
  /\ pending[t] = Idle
  /\ IF ~ValidAddress(a.address)
     THEN Throw("setRoyalties", a, Err("SDK.setRoyalties", "Address is required", NoCause))
     ELSE IF ~FeeOk(a.fee)
     THEN Throw("setRoyalties", a,
                Err("SDK.setRoyalties",
                    "Fee as numeric value between 0 and 10000 is required", NoCause))
     ELSE IF ~Truthy(contractAddress)
     THEN Throw("setRoyalties", a,
                Err("SDK.setRoyalties", "Contract needs to be deployed", NoCause))
     ELSE Call(t, "setRoyalties", a,
               [method |-> "setRoyalties", args |-> <<a.address, a.fee>>, opts |-> NoOpts])

\* royaltyInfo(tokenId, sellPrice): presence checks only, no lifecycle check.
RoyaltyInfo(t, a) ==
  /\ pending[t] = Idle
  /\ IF ~Truthy(a.tokenId)
     THEN Throw("royaltyInfo", a, Err("", "Please add tokenId", NoCause))
     ELSE IF ~Truthy(a.sellPrice)
     THEN Throw("royaltyInfo", a, Err("", "Please add sellPrice", NoCause))
     ELSE Call(t, "royaltyInfo", a,
               [method |-> "royaltyInfo", args |-> <<a.tokenId, a.sellPrice>>,
                opts |-> NoOpts])

\* A variant that waits for the instance to be deployed or loaded instead of
\* rejecting the call.
Mint_waitsUntilBound(t, a) ==
  /\ pending[t] = Idle
  /\ IF NotDeployedOrLoaded
     THEN /\ pending' = [pending EXCEPT ![t] = [stage |-> "awaitBound", op |-> "mint"]]
          /\ last' = [ev |-> "invoke", op |-> "mint", args |-> a, thrown |-> NoError,
                      call |-> NoCall, bound |-> Bound]
          /\ UNCHANGED <<untouched, contractAddress, contractDeployed, nChain, nBind,
                         nDeployOk>>
     ELSE IF ~ValidAddress(a.publicAddress)
     THEN Throw("mint", a, Err(Tag("mint"), "A valid address is required to mint.", NoCause))
     ELSE IF ~Truthy(a.tokenURI)
     THEN Throw("mint", a, Err(Tag("mint"), "A tokenURI is required to mint.", NoCause))
     ELSE Call(t, "mint", a,
               [method |-> "mintWithTokenURI", args |-> <<a.publicAddress, a.tokenURI>>,
                opts |-> GasOpts])

\* A variant without the deployed-or-loaded test, like royaltyInfo.
Mint_noGuard(t, a) ==
  /\ pending[t] = Idle
  /\ IF ~ValidAddress(a.publicAddress)
     THEN Throw("mint", a, Err(Tag("mint"), "A valid address is required to mint.", NoCause))
     ELSE IF ~Truthy(a.tokenURI)
     THEN Throw("mint", a, Err(Tag("mint"), "A tokenURI is required to mint.", NoCause))
     ELSE Call(t, "mint", a,
               [method |-> "mintWithTokenURI", args |-> <<a.publicAddress, a.tokenURI>>,
                opts |-> GasOpts])

\* mint({ publicAddress, tokenURI })
Mint(t, a) ==
  /\ pending[t] = Idle
  /\ IF NotDeployedOrLoaded
     THEN Throw("mint", a,
                Err(Tag("mint"), "A contract should be deployed or loaded first", NoCause))
     ELSE IF ~ValidAddress(a.publicAddress)
     THEN Throw("mint", a, Err(Tag("mint"), "A valid address is required to mint.", NoCause))
     ELSE IF ~Truthy(a.tokenURI)
     THEN Throw("mint", a, Err(Tag("mint"), "A tokenURI is required to mint.", NoCause))
     ELSE Call(t, "mint", a,
               [method |-> "mintWithTokenURI", args |-> <<a.publicAddress, a.tokenURI>>,
                opts |-> GasOpts])

AddMinter(t, a) ==
  RoleOp(t, "addMinter", a, "A contract should be deployed or loaded first",
         "A valid address is required to add the minter role.", "grantRole", roles.MINTER_ROLE)

RenounceMinter(t, a) ==
  RoleOp(t, "renounceMinter", a, "A contract should be deployed or loaded first",
         "A valid address is required to renounce the minter role.", "renounceRole",
         roles.MINTER_ROLE)

RemoveMinter(t, a) ==
  RoleOp(t, "removeMinter", a, "A contract should be deployed or loaded first",
         "A valid address is required to remove the minter role.", "revokeRole",
         roles.MINTER_ROLE)

IsMinter(t, a) ==
  RoleOp(t, "isMinter", a, "A contract should be deployed or loaded first",
         "A valid address is required to check the minter role.", "hasRole", roles.MINTER_ROLE)

\* transfer({ from, to, tokenId })
Transfer(t, a) ==
  /\ pending[t] = Idle
  /\ IF NotDeployedOrLoaded
     THEN Throw("transfer", a,
                Err(Tag("transfer"), "A contract should be deployed or loaded first", NoCause))
     ELSE IF ~ValidAddress(a.from)
     THEN Throw("transfer", a,
                Err(Tag("transfer"), "A valid address \"from\" is required to transfer.", NoCause))
     ELSE IF ~ValidAddress(a.to)
     THEN Throw("transfer", a,
                Err(Tag("transfer"), "A valid address \"to\" is required to transfer.", NoCause))
     ELSE IF ~IsInteger(a.tokenId)
     THEN Throw("transfer", a, Err(Tag("transfer"), "TokenId should be an integer.", NoCause))
     ELSE Call(t, "transfer", a,
               [method |-> "safeTransferFrom(address,address,uint256)",
                args |-> <<a.from, a.to, a.tokenId>>, opts |-> GasOpts])

\* setContractURI({ contractURI })
SetContractURI(t, a) ==
  /\ pending[t] = Idle
  /\ IF NotDeployedOrLoaded
     THEN Throw("setContractURI", a,
                Err(Tag("setContractURI"), "A contract should be deployed or loaded first!",
                    NoCause))
     ELSE IF ~Truthy(a.contractURI)
     THEN Throw("setContractURI", a,
                Err(Tag("setContractURI"), "A valid contract uri is required!", NoCause))
     ELSE Call(t, "setContractURI", a,
               [method |-> "setContractURI", args |-> <<a.contractURI>>, opts |-> NoOpts])

AddAdmin(t, a) ==
  RoleOp(t, "addAdmin", a, "A contract should be deployed or loaded first!",
         "A valid address is required to add the admin role.", "grantRole", roles.ADMIN_ROLE)

\* A variant that revokes the minter role, as removeMinter does.
RemoveAdmin_minterRole(t, a) ==
  RoleOp(t, "removeAdmin", a, "A contract should be deployed or loaded first!",
         "A valid address is required to remove the admin role.", "revokeRole",
         roles.MINTER_ROLE)

RemoveAdmin(t, a) ==
  RoleOp(t, "removeAdmin", a, "A contract should be deployed or loaded first!",
         "A valid address is required to remove the admin role.", "revokeRole", roles.ADMIN_ROLE)

RenounceAdmin(t, a) ==
  RoleOp(t, "renounceAdmin", a, "A contract should be deployed or loaded first!",
         "A valid address is required to renounce the admin role.", "renounceRole",
         roles.ADMIN_ROLE)

IsAdmin(t, a) ==
  RoleOp(t, "isAdmin", a, "A contract should be deployed or loaded first!",
         "A valid address is required to check the admin role.", "hasRole", roles.ADMIN_ROLE)

\* setApprovalForAll({ to, approvalStatus })
SetApprovalForAll(t, a) ==
  /\ pending[t] = Idle
  /\ IF NotDeployedOrLoaded
     THEN Throw("setApprovalForAll", a,
                Err(Tag("setApprovalForAll"),
                    "A contract should be deployed or loaded first.", NoCause))
     ELSE IF ~ValidAddress(a.to)
     THEN Throw("setApprovalForAll", a,
                Err(Tag("setApprovalForAll"),
                    "An address is required to setApprovalForAll.", NoCause))
     ELSE IF ~IsBoolean(a.approvalStatus)
     THEN Throw("setApprovalForAll", a,
                Err(Tag("setApprovalForAll"),
                    "approvalStatus param should be a boolean.", NoCause))
     ELSE Call(t, "setApprovalForAll", a,
               [method |-> "setApprovalForAll", args |-> <<a.to, a.approvalStatus>>,
                opts |-> NoOpts])

\* approveTransfer({ to, tokenId })
ApproveTransfer(t, a) ==
  /\ pending[t] = Idle
  /\ IF NotDeployedOrLoaded
     THEN Throw("approveTransfer", a,
                Err(Tag("approveTransfer"),
                    "A contract should be deployed or loaded first", NoCause))
     ELSE IF ~ValidAddress(a.to)
     THEN Throw("approveTransfer", a,
                Err(Tag("approveTransfer"),
                    "A valid address \"to\" is required to transfer.", NoCause))
     ELSE IF ~IsInteger(a.tokenId)
     THEN Throw("approveTransfer", a,
                Err(Tag("approveTransfer"), "TokenId should be an integer.", NoCause))
     ELSE Call(t, "approveTransfer", a,
               [method |-> "approve", args |-> <<a.to, a.tokenId>>, opts |-> NoOpts])

\* The awaited on-chain call answered: the method returns its result.
CallReturns(t) ==
  /\ pending[t].stage = "call"
  /\ pending' = [pending EXCEPT ![t] = Idle]
  /\ last' = [ev |-> "return", op |-> pending[t].op, args |-> <<>>, thrown |-> NoError,
              call |-> NoCall, bound |-> Bound]
  /\ UNCHANGED <<untouched, contractAddress, contractDeployed, nChain, nBind, nDeployOk>>

\* A variant whose failure path also drops the handle.
CallFails_unbind(t, cause) ==
  /\ pending[t].stage = "call"
  /\ pending' = [pending EXCEPT ![t] = Idle]
  /\ contractDeployed' = Undef
  /\ last' = [ev |-> "throw", op |-> pending[t].op, args |-> <<>>,
              thrown |-> OnFailure(pending[t].op, cause), call |-> NoCall, bound |-> Bound]
  /\ UNCHANGED <<untouched, contractAddress, nChain, nBind, nDeployOk>>

\* The awaited on-chain call failed: what the method's catch block (if any) throws.
CallFails(t, cause) ==
  /\ pending[t].stage = "call"
  /\ pending' = [pending EXCEPT ![t] = Idle]
  /\ last' = [ev |-> "throw", op |-> pending[t].op, args |-> <<>>,
              thrown |-> OnFailure(pending[t].op, cause), call |-> NoCall, bound |-> Bound]
  /\ UNCHANGED <<untouched, contractAddress, contractDeployed, nChain, nBind, nDeployOk>>

\* ------------------------------------------------------------ specifications
DeployArgs(full) ==
  [name : TextInputs(full, "N") \cup {Str(<<>>)}, symbol : TextInputs(full, "S"),
   contractURI : TextInputs(full, "U")]
LoadArgs(full) == [contractAddress : AddrInputs(full) \cup {ValidB, NonHexAddr}]
AddrArgs(full) == [publicAddress : AddrInputs(full)]
MintArgs(full) ==
  [publicAddress : AddrInputs(full) \cup {NonHexAddr}, tokenURI : TextInputs(full, "T")]
\* transfer: every pair of addresses of which one is ValidA.
TransferArgs(full) ==
  {a \in [from : AddrInputs(full), to : AddrInputs(full), tokenId : TokenIdInputs(full)] :
     a.from = ValidA \/ a.to = ValidA}
ApproveArgs(full) == [to : AddrInputs(full), tokenId : TokenIdInputs(full)]
ApprovalArgs(full) == [to : AddrInputs(full), approvalStatus : BoolInputs(full)]
RoyaltiesArgs(full) == [address : AddrInputs(full), fee : FeeInputs(full)]
RoyaltyInfoArgs(full) ==
  [tokenId : IF full THEN {Num(0, 1), Num(1, 1), Str(<<"x">>), Undef} ELSE {Num(1, 1)},
   sellPrice : IF full THEN {Num(0, 1), Num(100, 1), Str(<<>>), Undef} ELSE {Num(100, 1)}]
URIArgs(full) == [contractURI : TextInputs(full, "U")]

\* One step of caller t: it invokes an operation, or a call it awaits answers.
Step(t, full) ==
  \/ \E a \in DeployArgs(full) : Deploy(t, a)
  \/ \E addr \in ChainAddrs : DeploySubmitted(t, addr)
  \/ DeployConfirmed(t)
  \/ \E c \in Causes : DeployFails(t, c)
  \/ \E a \in LoadArgs(full) : LoadContract(t, a)
  \/ \E a \in RoyaltiesArgs(full) : SetRoyalties(t, a)
  \/ \E a \in RoyaltyInfoArgs(full) : RoyaltyInfo(t, a)
  \/ \E a \in MintArgs(full) : Mint(t, a)
  \/ \E a \in AddrArgs(full) : AddMinter(t, a)
  \/ \E a \in AddrArgs(full) : RenounceMinter(t, a)
  \/ \E a \in AddrArgs(full) : RemoveMinter(t, a)
  \/ \E a \in AddrArgs(full) : IsMinter(t, a)
  \/ \E a \in TransferArgs(full) : Transfer(t, a)
  \/ \E a \in URIArgs(full) : SetContractURI(t, a)
  \/ \E a \in AddrArgs(full) : AddAdmin(t, a)
  \/ \E a \in AddrArgs(full) : RemoveAdmin(t, a)
  \/ \E a \in AddrArgs(full) : RenounceAdmin(t, a)
  \/ \E a \in AddrArgs(full) : IsAdmin(t, a)
  \/ \E a \in ApprovalArgs(full) : SetApprovalForAll(t, a)
  \/ \E a \in ApproveArgs(full) : ApproveTransfer(t, a)
  \/ CallReturns(t)
  \/ \E c \in Causes : CallFails(t, c)

\* Concurrent callers, a few arguments each.
Next == \E t \in Tasks : Step(t, FALSE)
Spec == Init /\ [][Next]_vars

\* One caller at a time, every argument.
NextArgs == Step(1, TRUE)
SpecArgs == Init /\ [][NextArgs]_vars

\* ---------------------------------------------------------- error/handler.js
\* The text of a string: its pieces joined.
RECURSIVE Join(_)
Join(s) == IF s = <<>> THEN "" ELSE Head(s) \o Join(Tail(s))

\* The string with the given text.
Text(text) == IF text = "" THEN Str(<<>>) ELSE Str(<<text>>)

\* The decimal text of the number n/d.
NumText(n, d) ==
  IF d = 1 THEN ToString(n)
  ELSE IF n < 0 THEN "-" \o ToString((0 - n) \div 2) \o ".5"
  ELSE ToString(n \div 2) \o ".5"

\* `${v}` and `'...' + v`: the text a value is turned into.
ToText(v) ==
  CASE v.ty = "string" -> Join(v.s)
    [] v.ty = "undefined" -> "undefined"
    [] v.ty = "null" -> "null"
    [] v.ty = "boolean" -> IF v.b THEN "true" ELSE "false"
    [] v.ty = "number" -> NumText(v.n, v.d)
    [] OTHER -> "[object Object]"

\* v[k] for a v that is neither null nor undefined.
Get(v, k) ==
  CASE v.ty = "object" -> IF k \in DOMAIN v.f THEN v.f[k] ELSE Undef
    [] v.ty = "string" /\ k = "length" -> Num(Len(v.s), 1)
    [] OTHER -> Undef

\* x > 0
Positive(v) == v.ty = "number" /\ v.n > 0

Returned(v) == [ty |-> "return", value |-> v]
Threw(e) == [ty |-> "throw", value |-> e]
NotYet == [ty |-> "pending"]

\* networkErrorHandler(error); reading a property of null or undefined throws.
networkErrorHandler(error) ==
  IF error.ty \in {"undefined", "null"}
  THEN Threw(TypeErrorCause)
  ELSE IF Get(error, "code") # Undef /\ Get(error, "reason") # Undef
  THEN Returned(Text("code: " \o ToText(Get(error, "code")) \o ", message: "
                       \o ToText(Get(error, "reason"))))
  ELSE Returned(Text("code: UNKNOWN_ERROR, message: " \o ToText(error)))

\* A variant that appends the separator and the options whatever they are.
errorLogger_alwaysOptions(r) ==
  LET options == IF r.options = Undef THEN Str(<<>>) ELSE r.options
  IN Returned(Text(ToText(r.location) \o " " \o ToText(r.message) \o " | "
                     \o ToText(options)))

\* errorLogger({ location, message, options = '' })
errorLogger(r) ==
  LET options == IF r.options = Undef THEN Str(<<>>) ELSE r.options
      tail == IF Truthy(options) /\ Positive(Get(options, "length"))
              THEN " | " \o ToText(options)
              ELSE ""
  IN Returned(Text(ToText(r.location) \o " " \o ToText(r.message) \o tail))

\* Values given to networkErrorHandler: what a catch block may hold.
GasCode == Str(<<"UNPREDICTABLE_GAS_LIMIT">>)
GasReason == Str(<<"cannot estimate gas">>)
ErrorInputs ==
  {Undef, Null, Str(<<"unknown error">>), Str(<<>>), Num(404, 1), Bool(FALSE), Obj(<<>>),
   Obj([code |-> GasCode]), Obj([reason |-> GasReason]),
   Obj([message |-> Str(<<"boom">>)])}
    \cup {Obj([code |-> c, reason |-> r]) :
            c \in {GasCode, Num(-32000, 1), Null}, r \in {GasReason, Str(<<>>)}}

\* Arguments given to errorLogger; options Undef is options left out.
LoggerInputs ==
  [location : {Str(<<"Test">>), Str(<<"[SDK.deploy]">>), Str(<<>>)},
   message : {Str(<<"test">>), Str(<<"No template type supplied.">>), Undef},
   options : {Undef, Null, Str(<<>>), Str(<<"test">>), Str(<<"a", "b">>), Num(5, 1),
              Num(0, 1)}]

\* A function of the handler module is about to be called with one argument.
InitHandler ==
  /\ Constructed
  /\ sdk = NoSdkCall
  /\ fnCall \in
       {[fn |-> "networkErrorHandler", arg |-> e, result |-> NotYet] : e \in ErrorInputs}
         \cup {[fn |-> "errorLogger", arg |-> r, result |-> NotYet] : r \in LoggerInputs}

ApplyNetworkErrorHandler ==
  /\ fnCall.fn = "networkErrorHandler" /\ fnCall.result = NotYet
  /\ fnCall' = [fnCall EXCEPT !.result = networkErrorHandler(fnCall.arg)]
  /\ UNCHANGED <<roles, signer, contractAddress, contractDeployed, pending, nChain,
                 nBind, nDeployOk, last, sdk>>

ApplyErrorLogger ==
  /\ fnCall.fn = "errorLogger" /\ fnCall.result = NotYet
  /\ fnCall' = [fnCall EXCEPT !.result = errorLogger(fnCall.arg)]
  /\ UNCHANGED <<roles, signer, contractAddress, contractDeployed, pending, nChain,
                 nBind, nDeployOk, last, sdk>>

NextHandler == ApplyNetworkErrorHandler \/ ApplyErrorLogger
SpecHandler == InitHandler /\ [][NextHandler]_vars

\* ------------------------------------------------------------------ SDK/sdk.js
\* Cap on the number of assets in a payload of the metadata service.
MaxAssets == 2

Arr(items) == [ty |-> "array", items |-> items]

\* The one template name the factory knows.
TemplateName == Str(<<"ERC721Mintable">>)
\* ERROR_LOG.location.SDK_<op> and ERROR_LOG.message.<key>: fixed strings.
Location(op) == Str(<<"ERROR_LOG.location.SDK_" \o op>>)
Message(key) == Str(<<"ERROR_LOG.message." \o key>>)
MessageKeys ==
  {"no_template_type_supplied", "no_parameters_supplied", "no_address_supplied",
   "invalid_contract_address", "invalid_account_address", "no_tokenId_supplied",
   "invalid_transaction_hash"}

\* new Error(errorLogger({ location, message }))
LoggedError(op, key) ==
  [ty |-> "Error",
   message |-> errorLogger([location |-> Location(op), message |-> Message(key),
                            options |-> Undef]).value]
\* What Object.keys throws for null and undefined.
TypeErrorThrown == [ty |-> "TypeError"]
\* What the factory throws for a name it does not know.
UnknownTemplate == [ty |-> "Error", message |-> Text("UnknownTemplateError")]

\* utils.isHexString: "0x" followed by hex digits.
IsHexString(v) ==
  /\ v.ty = "string"
  /\ Len(v.s) >= 2
  /\ v.s[1] = "0" /\ v.s[2] = "x"
  /\ \A i \in 3..Len(v.s) : v.s[i] \in HexChars

\* Number.isFinite, on the numbers of the model (no NaN, no Infinity).
IsFinite(v) == v.ty = "number"

\* Object.keys(v) for an object or a primitive that is not null or undefined.
Keys(v) == IF v.ty = "object" THEN DOMAIN v.f ELSE {}

HttpOps == {"getContractMetadata", "getNFTs", "getNFTsForCollection", "getTokenMetadata"}
LifecycleOps == {"deploy", "loadContract"}

\* What a facade operation throws before its first await, or NoError.
SdkError(op, a) ==
  CASE op = "deploy" ->
         IF ~Truthy(a.template) THEN LoggedError(op, "no_template_type_supplied")
         ELSE IF a.params.ty \in {"undefined", "null"} THEN TypeErrorThrown
         ELSE IF Keys(a.params) = {} THEN LoggedError(op, "no_parameters_supplied")
         ELSE NoError
    [] op = "loadContract" ->
         IF ~Truthy(a.template) THEN LoggedError(op, "no_template_type_supplied")
         ELSE IF ~Truthy(a.contractAddress) THEN LoggedError(op, "no_address_supplied")
         ELSE NoError
    [] op \in {"getContractMetadata", "getNFTsForCollection"} ->
         IF ~ValidAddress(a.contractAddress)
         THEN LoggedError(op, "invalid_contract_address")
         ELSE NoError
    [] op = "getNFTs" ->
         IF ~ValidAddress(a.publicAddress)
         THEN LoggedError(op, "invalid_account_address")
         ELSE NoError
    [] op = "getTokenMetadata" ->
         IF ~ValidAddress(a.contractAddress)
         THEN LoggedError(op, "invalid_contract_address")
         ELSE IF ~IsFinite(a.tokenId) THEN LoggedError(op, "no_tokenId_supplied")
         ELSE NoError
    [] op = "getStatus" ->
         IF ~IsHexString(a.txHash) THEN LoggedError(op, "invalid_transaction_hash")
         ELSE NoError

NoOut == [ty |-> "none"]
\* The template instance the facade created, whose fields are the state.
TheInstance == [ty |-> "ERC721Mintable"]

\* The facade between two calls.
SdkIdle ==
  [pc |-> "idle", op |-> "none", args |-> <<>>, io |-> <<>>, out |-> NoOut,
   payload |-> Undef]

\* const { metadata, ...rest } = asset; return rest
WithoutMetadata(asset) ==
  Obj([k \in DOMAIN asset.f \ {"metadata"} |-> asset.f[k]])

\* A variant that forgets the other properties of the payload.
StripPayload_assetsOnly(data) ==
  Obj([assets |->
         Arr([i \in 1..Len(data.f.assets.items) |->
                WithoutMetadata(data.f.assets.items[i])])])

\* { ...data, assets: data.assets.map(...) }
StripPayload(data) ==
  Obj([k \in DOMAIN data.f |->
         IF k = "assets"
         THEN Arr([i \in 1..Len(data.f.assets.items) |->
                     WithoutMetadata(data.f.assets.items[i])])
         ELSE data.f[k]])

\* What an HTTP operation returns for the payload `data` of the response.
HttpResult(op, a, data) ==
  CASE op = "getContractMetadata" ->
         Obj([symbol |-> Get(data, "symbol"), name |-> Get(data, "name"),
              tokenType |-> Get(data, "tokenType")])
    [] op = "getNFTs" ->
         IF ~Truthy(IF a.includeMetadata = Undef THEN Bool(FALSE) ELSE a.includeMetadata)
         THEN StripPayload(data)
         ELSE data
    [] OTHER -> data

\* ---- inputs of the facade
TemplateInputs == {TemplateName, Str(<<"ERC20">>), Undef}
ParamsInputs ==
  {Undef, Obj(<<>>),
   Obj([name |-> Str(<<"N">>), symbol |-> Str(<<"S">>), contractURI |-> Str(<<"U">>)]),
   Obj([symbol |-> Str(<<"S">>)])}
TxHashInputs == {Str(<<"0", "x", "a", "1">>), Str(<<"0", "x">>), Str(<<"a", "1">>),
                 Str(<<"0", "x", "z">>), Undef}

SdkArgs(op) ==
  CASE op = "deploy" -> [template : TemplateInputs, params : ParamsInputs]
    [] op = "loadContract" ->
         [template : TemplateInputs, contractAddress : {ValidA, NonHexAddr, EmptyAddr, Undef}]
    [] op \in {"getContractMetadata", "getNFTsForCollection"} ->
         [contractAddress : AddrInputs(TRUE)]
    [] op = "getNFTs" ->
         [publicAddress : {ValidA, ShortAddr, Undef},
          includeMetadata : {Bool(TRUE), Bool(FALSE), Undef}]
    [] op = "getTokenMetadata" ->
         [contractAddress : {ValidA, NonHexAddr, Undef},
          tokenId : {Num(1, 1), Num(3, 2), Str(<<"1">>), Undef}]
    [] op = "getStatus" -> [txHash : TxHashInputs]

\* Assets of an account as the metadata service lists them.
Assets ==
  {Obj([contract |-> ValidA, tokenId |-> Str(<<"1">>),
        metadata |-> Obj([name |-> Str(<<"one">>)])]),
   Obj([contract |-> ValidB, tokenId |-> Str(<<"2">>), metadata |-> Null]),
   Obj([contract |-> ValidB, tokenId |-> Str(<<"3">>)])}
AssetLists == UNION {[1..n -> Assets] : n \in 0..MaxAssets}

\* Payloads the metadata service may answer with.
Payloads(op) ==
  IF op = "getNFTs"
  THEN {Obj([total |-> Num(Len(l), 1), account |-> ValidA, assets |-> Arr(l)]) :
          l \in AssetLists}
  ELSE {Obj([symbol |-> Str(<<"S">>), name |-> Str(<<"N">>),
             tokenType |-> Str(<<"ERC721">>), contract |-> ValidA]),
        Obj([name |-> Str(<<"N">>)])}

\* Answers of provider.getTransactionReceipt: no such transaction, or a receipt.
Receipts == {Null, Obj([status |-> Num(1, 1)])}

\* ---- the facade's operations
\* new SDK(auth): the facade is idle and has made no instance yet.
InitSdk ==
  /\ Constructed
  /\ signer = TheSigner
  /\ sdk = SdkIdle
  /\ fnCall = NoFnCall

\* A facade operation from its entry to its first await or throw. An HTTP
\* operation sends its GET; the others call this.#auth.getSigner(). The
\* instance of the call before is the caller's now: the fields stand for the
\* one this call makes.
SdkInvoke(op, a) ==
  /\ sdk.pc = "idle"
  /\ sdk' = IF SdkError(op, a) # NoError
            THEN [pc |-> "idle", op |-> op, args |-> a, io |-> <<>>,
                  out |-> Threw(SdkError(op, a)), payload |-> Undef]
            ELSE [pc |-> IF op \in HttpOps THEN "http" ELSE "getProvider",
                  op |-> op, args |-> a,
                  io |-> IF op \in HttpOps THEN <<"GET">> ELSE <<"getSigner">>,
                  out |-> NoOut, payload |-> Undef]
  /\ contractAddress' = Undef
  /\ contractDeployed' = Undef
  /\ pending' = [t \in Tasks |-> Idle]
  /\ nChain' = 0
  /\ nBind' = 0
  /\ nDeployOk' = 0
  /\ last' = [ev |-> "new", op |-> "constructor", args |-> <<>>, thrown |-> NoError,
              call |-> NoCall, bound |-> FALSE]
  /\ UNCHANGED <<roles, signer, fnCall>>

SDK_deploy(a) == SdkInvoke("deploy", a)
SDK_loadContract(a) == SdkInvoke("loadContract", a)
SDK_getContractMetadata(a) == SdkInvoke("getContractMetadata", a)
SDK_getNFTs(a) == SdkInvoke("getNFTs", a)
SDK_getNFTsForCollection(a) == SdkInvoke("getNFTsForCollection", a)
SDK_getTokenMetadata(a) == SdkInvoke("getTokenMetadata", a)
SDK_getStatus(a) == SdkInvoke("getStatus", a)

\* The signer arrived and the instance is not made yet.
AtFactory == sdk.pc = "getProvider" /\ sdk.op \in LifecycleOps /\ last.ev = "new"
\* The facade awaits the template's deploy or loadContract.
Delegated == sdk.pc = "getProvider" /\ sdk.op \in LifecycleOps /\ last.ev # "new"

\* ContractFactory.factory(template, signer) throws.
FactoryFails ==
  /\ AtFactory
  /\ sdk.args.template # TemplateName
  /\ sdk' = [sdk EXCEPT !.pc = "idle", !.out = Threw(UnknownTemplate)]
  /\ UNCHANGED <<roles, signer, contractAddress, contractDeployed, pending, nChain,
                 nBind, nDeployOk, last, fnCall>>

\* factory(template, signer) and contract.deploy(params) to its first await.
DelegateDeploy ==
  /\ AtFactory
  /\ sdk.op = "deploy"
  /\ sdk.args.template = TemplateName
  /\ Deploy(1, [name |-> Get(sdk.args.params, "name"),
                symbol |-> Get(sdk.args.params, "symbol"),
                contractURI |-> Get(sdk.args.params, "contractURI")])

\* factory(template, signer) and contract.loadContract({ contractAddress }).
DelegateLoad ==
  /\ AtFactory
  /\ sdk.op = "loadContract"
  /\ sdk.args.template = TemplateName
  /\ LoadContract(1, [contractAddress |-> sdk.args.contractAddress])

\* A variant that returns the instance without awaiting the template's call.
DelegateSettled_noAwait ==
  /\ Delegated
  /\ sdk' = [sdk EXCEPT !.pc = "idle", !.out = Returned(TheInstance)]
  /\ UNCHANGED <<roles, signer, contractAddress, contractDeployed, pending, nChain,
                 nBind, nDeployOk, last, fnCall>>

\* `await contract.deploy(params)` / `await contract.loadContract(...)` is
\* over: the facade returns the instance, or throws what the template threw.
DelegateSettled ==
  /\ Delegated
  /\ pending[1] = Idle
  /\ sdk' = [sdk EXCEPT !.pc = "idle",
                        !.out = IF last.thrown # NoError
                                THEN Threw(last.thrown)
                                ELSE Returned(TheInstance)]
  /\ UNCHANGED <<roles, signer, contractAddress, contractDeployed, pending, nChain,
                 nBind, nDeployOk, last, fnCall>>

\* getStatus after `await this.getProvider()`: the receipt is asked for.
QueryReceipt ==
  /\ sdk.pc = "getProvider" /\ sdk.op = "getStatus"
  /\ sdk' = [sdk EXCEPT !.pc = "receipt", !.io = Append(@, "getTransactionReceipt")]
  /\ UNCHANGED <<roles, signer, contractAddress, contractDeployed, pending, nChain,
                 nBind, nDeployOk, last, fnCall>>

ReceiptAnswered(r) ==
  /\ sdk.pc = "receipt"
  /\ sdk' = [sdk EXCEPT !.pc = "idle", !.out = Returned(r)]
  /\ UNCHANGED <<roles, signer, contractAddress, contractDeployed, pending, nChain,
                 nBind, nDeployOk, last, fnCall>>

ReceiptFails(cause) ==
  /\ sdk.pc = "receipt"
  /\ sdk' = [sdk EXCEPT !.pc = "idle", !.out = Threw(Raw(cause))]
  /\ UNCHANGED <<roles, signer, contractAddress, contractDeployed, pending, nChain,
                 nBind, nDeployOk, last, fnCall>>

\* `await this.#httpClient.get(apiUrl)` answered with { data }.
HttpAnswered(data) ==
  /\ sdk.pc = "http"
  /\ sdk' = [sdk EXCEPT !.pc = "idle", !.payload = data,
                        !.out = Returned(HttpResult(sdk.op, sdk.args, data))]
  /\ UNCHANGED <<roles, signer, contractAddress, contractDeployed, pending, nChain,
                 nBind, nDeployOk, last, fnCall>>

HttpFails(cause) ==
  /\ sdk.pc = "http"
  /\ sdk' = [sdk EXCEPT !.pc = "idle", !.out = Threw(Raw(cause))]
  /\ UNCHANGED <<roles, signer, contractAddress, contractDeployed, pending, nChain,
                 nBind, nDeployOk, last, fnCall>>

NextSdk ==
  \/ \E a \in SdkArgs("deploy") : SDK_deploy(a)
  \/ \E a \in SdkArgs("loadContract") : SDK_loadContract(a)
  \/ \E a \in SdkArgs("getContractMetadata") : SDK_getContractMetadata(a)
  \/ \E a \in SdkArgs("getNFTs") : SDK_getNFTs(a)
  \/ \E a \in SdkArgs("getNFTsForCollection") : SDK_getNFTsForCollection(a)
  \/ \E a \in SdkArgs("getTokenMetadata") : SDK_getTokenMetadata(a)
  \/ \E a \in SdkArgs("getStatus") : SDK_getStatus(a)
  \/ FactoryFails
  \/ DelegateDeploy
  \/ DelegateLoad
  \/ \E addr \in ChainAddrs : DeploySubmitted(1, addr)
  \/ DeployConfirmed(1)
  \/ \E c \in Causes : DeployFails(1, c)
  \/ DelegateSettled
  \/ QueryReceipt
  \/ \E r \in Receipts : ReceiptAnswered(r)
  \/ \E c \in Causes : ReceiptFails(c)
  \/ \E data \in Payloads(sdk.op) : HttpAnswered(data)
  \/ \E c \in Causes : HttpFails(c)

\* One facade, one call at a time.
SpecSdk == InitSdk /\ [][NextSdk]_vars

\* ------------------------------------------------------------------ claims
\* The messages of the lifecycle errors.
AlreadyMsgs ==
  {"The contract has already been deployed!", "The contract has already been loaded!"}
DeployedOrLoadedMsgs ==
  {"A contract should be deployed or loaded first",
   "A contract should be deployed or loaded first!",
   "A contract should be deployed or loaded first.",
   "Contract needs to be deployed"}

Invoked(ops) == last.ev = "invoke" /\ last.op \in ops

\* C1: a deploy or loadContract invoked on a bound instance fails with the
\* already-deployed/already-loaded error and sends nothing to the chain, and
\* deploy returns normally at most once per instance.
C1_BoundRejectsAndDeployOnce ==
  /\ (Invoked({"deploy", "loadContract"}) /\ last.bound)
       => (last.thrown.ty = "Error" /\ last.thrown.msg \in AlreadyMsgs /\ last.call = NoCall)
  /\ nDeployOk <= 1

\* C2: of two deploy/loadContract calls in flight on an unbound instance the
\* first to complete binds it and the other one fails: a deploy never returns
\* normally on an instance that was bound meanwhile, and the fields are written
\* at most once.
C2_FirstBindsSecondFails ==
  /\ (last.ev = "return" /\ last.op = "deploy") => ~last.bound
  /\ nBind <= 1

\* C3: in every state between two steps, contractAddress is set if and only if
\* #contractDeployed is set.
C3_AddressIffHandle == (contractAddress # Undef) <=> (contractDeployed # Undef)

\* C3's case: a deploy has just bound the instance while another call is still
\* waiting for the chain.
C3_Witness ==
  /\ last.ev = "return" /\ last.op = "deploy"
  /\ contractAddress # Undef /\ contractDeployed # Undef
  /\ \E t \in Tasks : pending[t] # Idle

\* The operations whose precondition is "bound".
BoundRequiredOps ==
  {"mint", "transfer", "approveTransfer", "setApprovalForAll", "addMinter",
   "removeMinter", "renounceMinter", "isMinter", "addAdmin", "removeAdmin",
   "renounceAdmin", "isAdmin", "setRoyalties", "setContractURI"}

\* C4: every bound-required operation called on an unbound instance, whatever
\* its arguments, throws the deployed-or-loaded error and sends nothing to
\* the chain.
C4_UnboundRaisesPrecondition ==
  (Invoked(BoundRequiredOps) /\ ~last.bound)
    => (/\ last.thrown.ty = "Error"
        /\ last.thrown.msg \in DeployedOrLoadedMsgs
        /\ last.call = NoCall)

AddressesOf(op, a) ==
  CASE op = "loadContract" -> {a.contractAddress}
    [] op = "transfer" -> {a.from, a.to}
    [] op \in {"approveTransfer", "setApprovalForAll"} -> {a.to}
    [] op = "setRoyalties" -> {a.address}
    [] OTHER -> {a.publicAddress}

AddressOps == (BoundRequiredOps \ {"setContractURI"}) \cup {"loadContract"}

\* The messages of the address validation errors.
AddressMsgs ==
  {"A valid address is required to mint.",
   "A valid address \"from\" is required to transfer.",
   "A valid address \"to\" is required to transfer.",
   "An address is required to setApprovalForAll.",
   "A valid address is required to add the minter role.",
   "A valid address is required to renounce the minter role.",
   "A valid address is required to remove the minter role.",
   "A valid address is required to check the minter role.",
   "A valid address is required to add the admin role.",
   "A valid address is required to remove the admin role.",
   "A valid address is required to renounce the admin role.",
   "A valid address is required to check the admin role.",
   "Address is required",
   "A valid contract address is required to load a contract."}

\* C6: an address-taking operation given a malformed address (empty, wrong
\* length, non-hex), on a bound instance (loadContract: on an unbound one),
\* throws an address validation error, sends nothing to the chain and leaves
\* the instance as it was.
C6_MalformedAddressRejected ==
  [][(/\ last'.ev = "invoke" /\ last'.op \in AddressOps
      /\ AddressesOf(last'.op, last'.args) \cap MalformedAddrs # {}
      /\ Bound <=> (last'.op # "loadContract"))
       => (/\ last'.thrown.ty = "Error"
           /\ last'.thrown.msg \in AddressMsgs
           /\ last'.call = NoCall
           /\ nChain' = nChain
           /\ UNCHANGED <<signer, contractAddress, contractDeployed, pending>>)]_vars

\* C6's case: a transfer to a non-hex address on a bound instance was rejected.
C6_Witness ==
  /\ Invoked({"transfer"}) /\ last.bound
  /\ last.args.to = NonHexAddr /\ last.args.from = ValidA
  /\ last.thrown.ty = "Error"

\* C7: on a bound instance and with a valid receiver, setRoyalties(address, f)
\* sends the on-chain setRoyalties call exactly when f is an integer with
\* 0 < f < 10000, and sends nothing otherwise.
FeeInRange(f) == f.ty = "number" /\ f.d = 1 /\ 0 < f.n /\ f.n < 10000
C7_RoyaltyFeeRange ==
  [][(/\ last'.ev = "invoke" /\ last'.op = "setRoyalties" /\ Bound
      /\ last'.args.address \in ValidAddrs)
       => (/\ FeeInRange(last'.args.fee)
                <=> (/\ last'.thrown = NoError
                     /\ last'.call = [method |-> "setRoyalties",
                                      args |-> <<last'.args.address, last'.args.fee>>,
                                      opts |-> NoOpts]
                     /\ nChain' = nChain + 1)
           /\ ~FeeInRange(last'.args.fee)
                => (last'.thrown.ty = "Error" /\ last'.call = NoCall /\ nChain' = nChain))]_vars

\* C7's case: the fee 9999 was accepted on a bound instance.
C7_Witness ==
  /\ Invoked({"setRoyalties"}) /\ last.bound
  /\ last.args.fee = Num(9999, 1) /\ last.thrown = NoError /\ last.call # NoCall

\* C8: when the on-chain call of an operation fails, the caller gets an Error
\* tagged with that operation which embeds the collaborator's failure, never
\* the bare failure.
C8_ChainFailureWrapped ==
  last.ev = "throw"
    => (/\ last.thrown.ty = "Error"
        /\ last.thrown.tag = "ERC721Mintable." \o last.op
        /\ last.thrown.cause \in Causes)

\* C9: deploy on an unbound instance submits the deployment exactly when the
\* signer is present, the name is a non-empty string and neither the symbol nor
\* the contractURI is undefined (empty strings pass); otherwise it throws an
\* error tagged with deploy, sends nothing to the chain and stays unbound.
DeployAccepts(a) ==
  /\ signer # Undef
  /\ a.name.ty = "string" /\ a.name.s # <<>>
  /\ a.symbol # Undef
  /\ a.contractURI # Undef
C9_DeployPreconditions ==
  [][(last'.ev = "invoke" /\ last'.op = "deploy" /\ ~Bound)
       => (/\ DeployAccepts(last'.args)
                <=> (/\ last'.thrown = NoError
                     /\ last'.call.method = "deploy"
                     /\ nChain' = nChain + 1)
           /\ ~DeployAccepts(last'.args)
                => (/\ last'.thrown.ty = "Error"
                    /\ last'.thrown.tag = "ERC721Mintable.deploy"
                    /\ last'.call = NoCall
                    /\ nChain' = nChain
                    /\ contractAddress' = Undef /\ contractDeployed' = Undef))]_vars

\* C9's case: a deploy with an empty symbol and an empty contractURI was
\* submitted to the chain.
C9_Witness ==
  /\ Invoked({"deploy"}) /\ ~last.bound
  /\ last.args.symbol = Str(<<>>) /\ last.args.contractURI = Str(<<>>)
  /\ last.thrown = NoError /\ last.call # NoCall

\* C10: loadContract with a valid address on an unbound instance sets
\* contractAddress to the argument and the handle to the contract at that
\* address, and sends nothing to the chain.
C10_LoadBindsToArgument ==
  [][(/\ last'.ev = "invoke" /\ last'.op = "loadContract" /\ ~Bound
      /\ last'.args.contractAddress \in ValidAddrs)
       => (/\ last'.thrown = NoError
           /\ contractAddress' = last'.args.contractAddress
           /\ contractDeployed' = Contract(last'.args.contractAddress)
           /\ last'.call = NoCall
           /\ nChain' = nChain
           /\ pending' = pending)]_vars

\* C10's case: an unbound instance was loaded at ValidB after a deploy on it
\* had failed.
C10_Witness ==
  /\ Invoked({"loadContract"}) /\ ~last.bound /\ last.thrown = NoError
  /\ contractAddress = ValidB /\ contractDeployed = Contract(ValidB)
  /\ nChain >= 1

\* The operations of the template other than deploy and loadContract.
OtherOps ==
  {"mint", "transfer", "approveTransfer", "setApprovalForAll", "addMinter",
   "renounceMinter", "removeMinter", "isMinter", "addAdmin", "removeAdmin",
   "renounceAdmin", "isAdmin", "setRoyalties", "royaltyInfo", "setContractURI"}

\* C11: no step of an operation other than deploy and loadContract, whether it
\* throws at once, sends its call, returns or fails, and whatever other calls
\* are in flight, changes contractAddress, #contractDeployed, #signer or the
\* fields ADMIN_ROLE and MINTER_ROLE.
C11_OtherOpsLeaveInstance ==
  [][(last'.op \in OtherOps)
       => UNCHANGED <<contractAddress, contractDeployed, signer, roles>>]_vars

\* C11's case: on a bound instance an operation has just failed on the chain
\* while another caller's operation is still waiting.
C11_Witness ==
  /\ last.ev = "throw" /\ last.op \in OtherOps /\ last.bound
  /\ contractAddress # Undef /\ contractDeployed # Undef
  /\ \E t \in Tasks : pending[t].stage = "call"

RoleOps ==
  {"addMinter", "removeMinter", "renounceMinter", "isMinter",
   "addAdmin", "removeAdmin", "renounceAdmin", "isAdmin"}

\* The primitive of the access-control contract a role operation stands for.
RolePrimitive(op) ==
  CASE op \in {"addMinter", "addAdmin"} -> "grantRole"
    [] op \in {"removeMinter", "removeAdmin"} -> "revokeRole"
    [] op \in {"renounceMinter", "renounceAdmin"} -> "renounceRole"
    [] op \in {"isMinter", "isAdmin"} -> "hasRole"

\* The role constant a role operation is about.
RoleConstant(op) ==
  IF op \in {"addMinter", "removeMinter", "renounceMinter", "isMinter"}
  THEN MINTER_ROLE
  ELSE ADMIN_ROLE

\* C12: a role operation invoked on a bound instance with a valid address sends
\* exactly one request to the chain, to the primitive matching the operation
\* (grantRole, revokeRole, renounceRole, hasRole) with the role constant
\* matching its name and the address given; when the request is answered or
\* fails, the operation sends no other.
C12_RoleOpsIssueMatchingCall ==
  [][/\ (/\ last'.ev = "invoke" /\ last'.op \in RoleOps /\ Bound
         /\ last'.args.publicAddress \in ValidAddrs)
          => (/\ last'.thrown = NoError
              /\ last'.call.method = RolePrimitive(last'.op)
              /\ last'.call.args = <<RoleConstant(last'.op), last'.args.publicAddress>>
              /\ nChain' = nChain + 1)
     /\ (last'.ev \in {"return", "throw"} /\ last'.op \in RoleOps)
          => nChain' = nChain]_vars

\* C12's case: renounceAdmin on a bound instance sent renounceRole with the
\* admin role and the caller's address.
C12_Witness ==
  /\ Invoked({"renounceAdmin"}) /\ last.bound /\ last.thrown = NoError
  /\ last.call.method = "renounceRole"
  /\ last.call.args = <<ADMIN_ROLE, ValidB>>

TokenIdOps == {"transfer", "approveTransfer"}

\* A transfer or approveTransfer call that reaches the tokenId check: the
\* instance is bound and the addresses given are valid.
ReachesTokenIdCheck ==
  /\ last'.ev = "invoke" /\ last'.op \in TokenIdOps /\ Bound
  /\ last'.args.to \in ValidAddrs
  /\ last'.op = "transfer" => last'.args.from \in ValidAddrs

\* C13 as it is stated: transfer and approveTransfer accept a tokenId exactly
\* when it is a non-negative integer, and reject any other without sending
\* anything to the chain.
C13_TokenIdNonNegativeInteger ==
  [][ReachesTokenIdCheck
       => LET id == last'.args.tokenId
              ok == id.ty = "number" /\ id.d = 1 /\ id.n >= 0
          IN /\ ok <=> (last'.thrown = NoError /\ last'.call # NoCall)
             /\ ~ok => (last'.call = NoCall /\ nChain' = nChain)]_vars

\* C13, amended: transfer and approveTransfer accept a tokenId exactly when it
\* is an integer, negative ones included, and reject any other value with the
\* "TokenId should be an integer." error without sending anything to the chain.
C13_TokenIdInteger ==
  [][ReachesTokenIdCheck
       => LET id == last'.args.tokenId
              ok == id.ty = "number" /\ id.d = 1
          IN /\ ok <=> (last'.thrown = NoError /\ last'.call # NoCall)
             /\ ~ok => (/\ last'.thrown.ty = "Error"
                        /\ last'.thrown.msg = "TokenId should be an integer."
                        /\ last'.call = NoCall /\ nChain' = nChain)]_vars

\* C13's case: approveTransfer sent approve to the chain with the tokenId -1.
C13_Witness ==
  /\ Invoked({"approveTransfer"}) /\ last.bound
  /\ last.args.tokenId = Num(-1, 1)
  /\ last.thrown = NoError /\ last.call.method = "approve"

ApprovalOps == {"approveTransfer", "setApprovalForAll"}

\* A transfer, approveTransfer or setApprovalForAll call that passed its checks
\* and sent its request to the chain.
SendsCall(ops) ==
  last'.ev = "invoke" /\ last'.op \in ops /\ last'.thrown = NoError /\ last'.call # NoCall

\* C14 as it is stated: transfer, approveTransfer and setApprovalForAll each
\* send their request with the same fixed gas ceiling.
C14_SameGasCeiling ==
  [][SendsCall({"transfer"} \cup ApprovalOps)
       => last'.call.opts = [gasLimit |-> GasLimit]]_vars

\* C14, amended: transfer sends its request with the fixed gas ceiling of
\* 6000000; approveTransfer and setApprovalForAll send theirs with no gas
\* option at all.
C14_GasCeilingOnTransferOnly ==
  [][/\ SendsCall({"transfer"}) => last'.call.opts = [gasLimit |-> GasLimit]
     /\ SendsCall(ApprovalOps) => last'.call.opts = NoOpts]_vars

\* C14's case: setApprovalForAll sent its request without a gas option after a
\* transfer had sent one with the ceiling.
C14_Witness ==
  /\ Invoked({"setApprovalForAll"}) /\ last.bound /\ last.thrown = NoError
  /\ last.call.method = "setApprovalForAll" /\ last.call.opts = NoOpts
  /\ last.args.approvalStatus = Bool(FALSE)

\* networkErrorHandler was applied to its argument.
HandlerApplied == fnCall.fn = "networkErrorHandler" /\ fnCall.result # NotYet

\* The argument of the handler call has both a code and a reason.
CarriesCodeAndReason ==
  /\ fnCall.arg.ty = "object"
  /\ {"code", "reason"} \subseteq DOMAIN fnCall.arg.f

\* C18: networkErrorHandler returns for every argument, null and undefined
\* included, and never throws; for an argument with a code and a reason the
\* result is 'code: <code>, message: <reason>', for any other it is
\* 'code: UNKNOWN_ERROR, message: <the argument as text>'.
C18_HandlerTotal ==
  HandlerApplied
    => /\ fnCall.result.ty = "return"
       /\ fnCall.result.value.ty = "string"
       /\ Join(fnCall.result.value.s) =
            IF CarriesCodeAndReason
            THEN "code: " \o ToText(fnCall.arg.f.code) \o ", message: "
                   \o ToText(fnCall.arg.f.reason)
            ELSE "code: UNKNOWN_ERROR, message: " \o ToText(fnCall.arg)

\* C19: networkErrorHandler returns an object of two properties, message and
\* type: type is '[NETWORK.ERROR]' for an argument with a code and a reason and
\* '[RUNTIME.ERROR]' for any other, and message is the 'code: ..., message: ...'
\* text.
C19_HandlerReturnsMessageAndType ==
  (HandlerApplied /\ fnCall.arg.ty \notin {"undefined", "null"})
    => /\ fnCall.result.ty = "return"
       /\ fnCall.result.value.ty = "object"
       /\ DOMAIN fnCall.result.value.f = {"message", "type"}
       /\ fnCall.result.value.f.type =
            Text(IF CarriesCodeAndReason THEN "[NETWORK.ERROR]" ELSE "[RUNTIME.ERROR]")
       /\ fnCall.result.value.f.message.ty = "string"

SdkDone(ops) == sdk.pc = "idle" /\ sdk.op \in ops

\* C15: when SDK.deploy or SDK.loadContract has returned, what it returned is
\* the instance and the instance is bound, its contractAddress and its handle
\* both set; when the template's deploy or loadContract it delegated to has
\* thrown, the facade call has thrown and returned nothing.
C15_ReturnedInstanceBound ==
  SdkDone(LifecycleOps)
    => /\ sdk.out.ty = "return"
            => (/\ sdk.out.value = TheInstance
                /\ contractAddress # Undef /\ contractDeployed # Undef)
       /\ (last.ev # "new" /\ last.thrown # NoError)
            => (sdk.out.ty = "throw" /\ sdk.out.value = last.thrown)

\* C15's case: SDK.deploy returned the instance after the chain confirmed the
\* deployment at ValidB.
C15_Witness ==
  /\ SdkDone({"deploy"}) /\ sdk.out = Returned(TheInstance)
  /\ last.ev = "return" /\ last.op = "deploy"
  /\ contractAddress = ValidB /\ contractDeployed = Contract(ValidB)

\* The arguments C16 calls missing or invalid.
InvalidArgs(op, a) ==
  CASE op = "deploy" ->
         \/ a.template \in {Undef, Str(<<>>)}
         \/ a.params \in {Undef, Null, Obj(<<>>)}
    [] op = "loadContract" ->
         \/ a.template \in {Undef, Str(<<>>)}
         \/ a.contractAddress \notin ValidAddrs
    [] op \in {"getContractMetadata", "getNFTsForCollection"} ->
         a.contractAddress \notin ValidAddrs
    [] op = "getNFTs" -> a.publicAddress \notin ValidAddrs
    [] op = "getTokenMetadata" ->
         a.contractAddress \notin ValidAddrs \/ a.tokenId.ty # "number"
    [] op = "getStatus" -> ~IsHexString(a.txHash)
    [] OTHER -> FALSE

\* The call threw an error made by errorLogger from the operation's location
\* and one of the fixed messages, before any signer, GET or provider query.
RaisedLoggedErrorFirst ==
  /\ sdk.pc = "idle"
  /\ sdk.out.ty = "throw"
  /\ \E k \in MessageKeys :
       sdk.out.value =
         [ty |-> "Error", message |-> Text(ToText(Location(sdk.op)) \o " "
                                             \o ToText(Message(k)))]
  /\ sdk.io = <<>>

\* C16: a facade operation called with a missing or invalid argument (missing
\* template, missing or empty params, missing or malformed address,
\* non-numeric tokenId, non-hex txHash) throws an error whose message
\* errorLogger made from the operation's location and a fixed message, and has
\* acquired no signer, sent no GET and asked the provider nothing.
C16_InvalidArgumentRaisesLogged ==
  InvalidArgs(sdk.op, sdk.args) => RaisedLoggedErrorFirst

\* C17: getNFTs with a valid address returns, for includeMetadata false, the
\* payload with every property kept and every asset in its place with all its
\* properties except metadata; for includeMetadata true, the payload itself.
C17_GetNFTsStripsMetadata ==
  (/\ SdkDone({"getNFTs"}) /\ sdk.out.ty = "return"
   /\ sdk.args.includeMetadata \in {Bool(TRUE), Bool(FALSE)})
    => LET data == sdk.payload
           res == sdk.out.value
       IN IF sdk.args.includeMetadata = Bool(TRUE)
          THEN res = data
          ELSE /\ res.ty = "object"
               /\ DOMAIN res.f = DOMAIN data.f
               /\ \A k \in DOMAIN data.f \ {"assets"} : res.f[k] = data.f[k]
               /\ res.f.assets.ty = "array"
               /\ Len(res.f.assets.items) = Len(data.f.assets.items)
               /\ \A i \in 1..Len(data.f.assets.items) :
                    LET x == res.f.assets.items[i]
                        y == data.f.assets.items[i]
                    IN /\ x.ty = "object"
                       /\ DOMAIN x.f = DOMAIN y.f \ {"metadata"}
                       /\ \A k \in DOMAIN x.f : x.f[k] = y.f[k]

\* C17's case: getNFTs without metadata returned two assets of which the
\* payload's first had a metadata property and the second had none.
C17_Witness ==
  /\ SdkDone({"getNFTs"}) /\ sdk.out.ty = "return"
  /\ sdk.args.includeMetadata = Bool(FALSE)
  /\ Len(sdk.payload.f.assets.items) = 2
  /\ "metadata" \in DOMAIN sdk.payload.f.assets.items[1].f
  /\ "metadata" \notin DOMAIN sdk.payload.f.assets.items[2].f
  /\ "metadata" \notin DOMAIN sdk.out.value.f.assets.items[1].f
  /\ sdk.out.value.f.total = Num(2, 1)

\* The values JavaScript takes for false.
Falsy == {Undef, Null, Num(0, 1), Str(<<>>), Bool(FALSE)}

\* C21: royaltyInfo(tokenId, sellPrice) throws before any request to the chain
\* exactly when tokenId or sellPrice is falsy (0 included), checks nothing
\* else, and otherwise sends exactly one royaltyInfo request with the two
\* arguments as given.
C21_RoyaltyInfoFalsyOnly ==
  [][(last'.ev = "invoke" /\ last'.op = "royaltyInfo")
       => LET a == last'.args
              falsy == a.tokenId \in Falsy \/ a.sellPrice \in Falsy
          IN /\ falsy <=> last'.thrown # NoError
             /\ falsy => (last'.call = NoCall /\ nChain' = nChain)
             /\ ~falsy => (/\ last'.call.method = "royaltyInfo"
                           /\ last'.call.args = <<a.tokenId, a.sellPrice>>
                           /\ nChain' = nChain + 1)]_vars

\* The ways a call in flight moves on by sending a request: an operation sends
\* its one request on entry, deploy its submission on entry and its wait for
\* the confirmation when the submission is answered.
SendingMoves ==
  {<<"idle", "factoryDeploy">>, <<"factoryDeploy", "deployed">>, <<"idle", "call">>}

\* C22: no operation retries. Every request to the chain is the one request of
\* an invocation (for deploy, its one submission and then its one wait for the
\* confirmation); the only other thing a call in flight does is end; and the
\* step at which a request fails ends the invocation and sends nothing.
C22_NoRetry ==
  [][/\ \A t \in Tasks :
          pending'[t] # pending[t]
            => \/ /\ <<pending[t].stage, pending'[t].stage>> \in SendingMoves
                  /\ nChain' = nChain + 1
               \/ /\ pending'[t] = Idle
                  /\ nChain' = nChain
     /\ nChain' # nChain => \E t \in Tasks : pending'[t] # pending[t]
     /\ last'.ev = "throw"
          => /\ nChain' = nChain
             /\ \E t \in Tasks : pending[t] # Idle /\ pending'[t] = Idle]_vars

\* C22's case: a deploy was submitted, waited for its confirmation and failed,
\* and nothing else was sent: two requests in all, no call in flight and the
\* instance unbound.
C22_Witness ==
  /\ last.ev = "throw" /\ last.op = "deploy"
  /\ nChain = 2
  /\ \A t \in Tasks : pending[t] = Idle
  /\ contractAddress = Undef /\ contractDeployed = Undef

\* C23: in every state, whatever deploy and loadContract calls were interleaved
\* on the instance, a bound instance's contractAddress is the address of the
\* contract its handle refers to: the two were written by the same call.
C23_AddressIsHandlesAddress ==
  (contractAddress # Undef \/ contractDeployed # Undef)
    => (/\ contractDeployed # Undef
        /\ contractDeployed.ty = "contract"
        /\ contractDeployed.address = contractAddress)

\* C23's case: a deploy that was in flight while the instance got bound has
\* been confirmed and bound it a second time, at ValidB.
C23_Witness ==
  /\ last.ev = "return" /\ last.op = "deploy" /\ last.bound
  /\ nBind = 2
  /\ contractAddress = ValidB /\ contractDeployed = Contract(ValidB)

\* A deploy was submitted to the chain and has neither returned nor failed.
DeployInFlight == \E t \in Tasks : pending[t].stage \in {"factoryDeploy", "deployed"}

\* A bound-required operation is invoked in this step.
InvokesBoundRequired == last'.ev = "invoke" /\ last'.op \in BoundRequiredOps

\* The operation invoked in this step threw the deployed-or-loaded error and
\* sent nothing to the chain.
RejectedAsUnbound ==
  /\ last'.thrown.ty = "Error"
  /\ last'.thrown.msg \in DeployedOrLoadedMsgs
  /\ last'.call = NoCall
  /\ nChain' = nChain

Responds(t) ==
  \/ \E addr \in ChainAddrs : DeploySubmitted(t, addr)
  \/ DeployConfirmed(t)
  \/ \E c \in Causes : DeployFails(t, c)
  \/ CallReturns(t)
  \/ \E c \in Causes : CallFails(t, c)

\* The concurrent callers, with every request to the chain answered in the end.
SpecLive == Init /\ [][Next]_vars /\ \A t \in Tasks : WF_vars(Responds(t))

\* C25: given that the chain answers every request, every operation that is
\* waiting for the chain returns or throws in the end, whatever the state of
\* the instance and whatever other operations are in flight.
C25_EveryOperationCompletes ==
  /\ \A t \in Tasks : (pending[t] # Idle) ~> (pending[t] = Idle)
  /\ [](\A t \in Tasks : pending[t] # Idle => ENABLED Responds(t))

\* C25's case: two deploys are in flight on the instance at once, one
\* submitted and one already waiting for its confirmation.
C25_Witness ==
  /\ \E t \in Tasks : pending[t].stage = "factoryDeploy"
  /\ \E t \in Tasks : pending[t].stage = "deployed"

====
